---- MODULE Spec2Model ----
(***************************************************************************)
(* A model of core/lib/db.py: one MySQLSocketConnection or                 *)
(* MySQLTCPConnection instance, the handles its connect_function opens,    *)
(* and the calls its methods issue on those handles.                       *)
(*                                                                         *)
(* The MySQLdb driver is the environment.  What it answers to a statement  *)
(* (nothing, a warning, an error) and whether a factory step fails are     *)
(* inputs drawn with \E.  A call on a handle the client already closed     *)
(* raises, as the driver does.                                             *)
(***************************************************************************)
EXTENDS Integers, Sequences, FiniteSets, TLC

\* ------------------------------------------------------------------ bounds
\* Handles the connect_function may open in one run.
MaxHandles == 2

\* ------------------------------------------------------- program constants
\* timeout=60, the factories' default idle timeout (connect() never passes it)
DefaultTimeout == 60
\* connect_timeout=10, the constructors' default
DefaultConnectTimeout == 10

\* ------------------------------------------------------------ input domains
None == 0
HandleIds == 1..MaxHandles
Charsets == {"None", "utf8"}
DatabaseNames == {"test"}
\* args=None is the empty list here
NoArgs == <<>>
\* the statements callers pass to query, query_array and execute
Statements == {[sql |-> "SELECT id, name FROM t", args |-> NoArgs],
               [sql |-> "DELETE FROM t WHERE id = %s", args |-> <<7>>]}
\* the ids callers pass to kill_query_by_id, and those among them that name a
\* process of the server
QueryIds == {7, 42}
ServerProcessIds == {7}
\* what the driver answers to one statement: nothing, a warning, an error
DriverWarnings == {"Warning: Data truncated"}
DriverErrors == {"ProgrammingError", "OperationalError"}
DriverOutcomes == {"ok"} \cup DriverWarnings \cup DriverErrors
\* what the driver raises for a call on a handle the client has closed
ClosedHandleError == "InterfaceError"
\* where a factory call fails, if it does: opening the session
\* (authentication, unreachable endpoint, connect timeout)
FactorySteps == {"ok", "Connect"}

\* the factories of this module, and the idle timeouts a caller that calls
\* one itself passes (timeout=0: none)
DefaultFactories == {"default_get_mysql_connection", "tcp_get_mysql_connection"}
Timeouts == {0, DefaultTimeout}

\* sql.show_processlist and sql.kill_proc: statement templates of core/lib/sql.py
show_processlist == "SHOW FULL PROCESSLIST"
kill_proc == "KILL %s"

\* what the server, left unchanged, answers a statement with: the columns
\* and the rows of its result set, in the server's order
ResultSet(sql, args) ==
    IF sql = "SELECT id, name FROM t"
    THEN [columns |-> <<"id", "name">>, rows |-> << <<"1", "a">>, <<"2", "b">> >>]
    ELSE IF sql = show_processlist
    THEN [columns |-> <<"Id", "Info">>, rows |-> << <<"7", "SELECT SLEEP(100)">> >>]
    ELSE [columns |-> <<>>, rows |-> <<>>]

\* a row as MySQLdb.cursors.DictCursor gives it: a mapping from column name
\* to value
RECURSIVE DictRow(_, _)
DictRow(columns, row) ==
    IF columns = <<>>
    THEN <<>>
    ELSE LET n == Len(columns)
         IN  (columns[n] :> row[n])
                @@ DictRow(SubSeq(columns, 1, n - 1), SubSeq(row, 1, n - 1))

\* cursor.fetchall(): the rows in the server's order, each as the cursor
\* class represents it (MySQLdb.cursors.Cursor: the tuple of values)
RECURSIVE FetchAll(_, _)
FetchAll(cursorclass, result) ==
    IF result.rows = <<>>
    THEN <<>>
    ELSE LET n == Len(result.rows)
             fetched == [result EXCEPT !.rows = SubSeq(result.rows, 1, n - 1)]
         IN  Append(FetchAll(cursorclass, fetched),
                    IF cursorclass = "DictCursor"
                    THEN DictRow(result.columns, result.rows[n])
                    ELSE result.rows[n])

VARIABLES
    cfg,               \* the constructor's arguments, as stored on the instance
    connect_function,  \* self.connect_function
    query_header,      \* self.query_header
    conn,              \* self.conn: None or a handle
    handles,           \* the driver's handles: state and session settings
    last,              \* the last method call: inputs, calls issued, outcome
    live,              \* a connect() succeeded, no disconnect()/close() call since
    phase,             \* progress through connect, disconnect, connect
    paired             \* query_array has just repeated the query call before it

vars == <<cfg, connect_function, query_header, conn, handles, last, live, phase,
          paired>>

\* ------------------------------------------------------------ pure helpers
\* "/* {} */".format(":".join((sys.argv[0], os.path.basename(__file__))))
QueryHeader(argv0) == <<"/* ", argv0, ":", "db.py", " */">>

\* "%s %s" % (self.query_header, sql)
WithHeader(header, sql) == header \o <<" ", sql>>

\* "USE {0}".format(database_name), the name between backquotes
BackQuote == "BACKQUOTE"
UseStatement(database_name) == <<"USE ", BackQuote, database_name, BackQuote>>

\* "SET SESSION SQL_LOG_BIN=0;"
NoBinlogStatement == <<"SET SESSION SQL_LOG_BIN=0;">>

\* "SET SESSION WAIT_TIMEOUT = %s"
WaitTimeoutStatement == <<"SET SESSION WAIT_TIMEOUT = %s">>

HasPrefix(text, header) ==
    /\ Len(text) >= Len(header)
    /\ SubSeq(text, 1, Len(header)) = header

\* a handle the driver has not opened yet
Unallocated ==
    [state |-> "unalloc", autocommit |-> FALSE, wait_timeout |-> 0,
     log_bin |-> TRUE, db |-> "", returned |-> FALSE]

\* the lowest handle id not yet in use; None when the bound is reached
FreshHandle ==
    IF \E h \in HandleIds : handles[h].state = "unalloc"
    THEN CHOOSE h \in HandleIds :
            /\ handles[h].state = "unalloc"
            /\ \A g \in HandleIds : g < h => handles[g].state # "unalloc"
    ELSE None

\* one call on a handle, with whether the client had closed that handle before
HandleCall(h, api, cursor, text, args) ==
    [h |-> h, api |-> api, cursor |-> cursor, text |-> text, args |-> args,
     closed |-> handles[h].state = "closed"]

\* the record of one method call
OpRecord(op, outcome, ret, calls, logs) ==
    [op |-> op, outcome |-> outcome, ret |-> ret, calls |-> calls, logs |-> logs,
     sql |-> "", args |-> <<>>, drv |-> "ok",
     factory |-> "none", fargs |-> <<>>, fstep |-> "ok", fcount |-> 0,
     timeout |-> 0, rows |-> <<>>]

\* ------------------------------------------------------------- factories
\* connection_config of default_get_mysql_connection
SocketConnectionConfig(user_name, user_pass, socket, dbname, connect_timeout, charset) ==
    LET config == [user |-> user_name, passwd |-> user_pass, unix_socket |-> socket,
                   db |-> dbname, use_unicode |-> TRUE,
                   connect_timeout |-> connect_timeout]
    IN  IF charset # "None" THEN config @@ [charset |-> charset] ELSE config

\* connection_config of tcp_get_mysql_connection
TCPConnectionConfig(user_name, user_pass, host, dbname, connect_timeout, charset) ==
    LET config == [user |-> user_name, passwd |-> user_pass, host |-> host,
                   db |-> dbname, use_unicode |-> TRUE,
                   connect_timeout |-> connect_timeout]
    IN  IF charset # "None" THEN config @@ [charset |-> charset] ELSE config

\* OpenSession as it would be without the guard "if timeout:"
OpenSession_always_sets(h, config, timeout, step) ==
    LET opened == [Unallocated EXCEPT !.state = "open", !.db = config.db]
        open   == HandleCall(h, "MySQLdb.Connect", "none", <<>>, <<>>)
        auto   == HandleCall(h, "autocommit", "none", <<>>, <<TRUE>>)
        setw   == HandleCall(h, "cursor.execute", "Cursor", WaitTimeoutStatement,
                             <<timeout>>)
    IN  IF step = "Connect"
        THEN [raised |-> "OperationalError", opened |-> FALSE, config |-> config,
              timeout |-> timeout, calls |-> <<>>, rec |-> Unallocated]
        ELSE [raised |-> "ok", opened |-> TRUE, config |-> config,
              timeout |-> timeout, calls |-> <<open, auto, setw>>,
              rec |-> [opened EXCEPT !.autocommit = TRUE, !.wait_timeout = timeout]]

\* dbh = MySQLdb.Connect(**connection_config); dbh.autocommit(True);
\* if timeout: cursor.execute("SET SESSION WAIT_TIMEOUT = %s", (timeout,)); return dbh
\* step names the driver call that raises, if one does.  The result tells
\* whether a handle was opened, what was called on it, in order, and how it
\* was left.
OpenSession(h, config, timeout, step) ==
    LET opened == [Unallocated EXCEPT !.state = "open", !.db = config.db]
        open   == HandleCall(h, "MySQLdb.Connect", "none", <<>>, <<>>)
        auto   == HandleCall(h, "autocommit", "none", <<>>, <<TRUE>>)
        setw   == HandleCall(h, "cursor.execute", "Cursor", WaitTimeoutStatement,
                             <<timeout>>)
    IN  IF step = "Connect"
        THEN [raised |-> "OperationalError", opened |-> FALSE, config |-> config,
              timeout |-> timeout, calls |-> <<>>, rec |-> Unallocated]
        ELSE IF timeout # 0
        THEN [raised |-> "ok", opened |-> TRUE, config |-> config,
              timeout |-> timeout, calls |-> <<open, auto, setw>>,
              rec |-> [opened EXCEPT !.autocommit = TRUE, !.wait_timeout = timeout]]
        ELSE [raised |-> "ok", opened |-> TRUE, config |-> config,
              timeout |-> timeout, calls |-> <<open, auto>>,
              rec |-> [opened EXCEPT !.autocommit = TRUE]]

default_get_mysql_connection(h, a, timeout, step) ==
    OpenSession(h, SocketConnectionConfig(a.user_name, a.user_pass, a.endpoint,
                                          a.dbname, a.connect_timeout, a.charset),
                timeout, step)

tcp_get_mysql_connection(h, a, timeout, step) ==
    OpenSession(h, TCPConnectionConfig(a.user_name, a.user_pass, a.endpoint,
                                       a.dbname, a.connect_timeout, a.charset),
                timeout, step)

\* a connect_function the caller supplied: it returns a handle or raises;
\* what it sets on the session is its own business
custom_connect_function(h, a, step) ==
    IF step = "ok"
    THEN [raised |-> "ok", opened |-> TRUE, config |-> a, timeout |-> 0,
          calls |-> <<>>,
          rec |-> [Unallocated EXCEPT !.state = "open", !.db = a.dbname]]
    ELSE [raised |-> "OperationalError", opened |-> FALSE, config |-> a,
          timeout |-> 0, calls |-> <<>>, rec |-> Unallocated]

\* self.connect_function(self.user, self.password, self.socket or self.host,
\*     self.db, connect_timeout=self.connect_timeout, charset=self.charset)
CallConnectFunction(fn, h, a, step) ==
    IF fn = "default_get_mysql_connection"
    THEN default_get_mysql_connection(h, a, DefaultTimeout, step)
    ELSE IF fn = "tcp_get_mysql_connection"
    THEN tcp_get_mysql_connection(h, a, DefaultTimeout, step)
    ELSE custom_connect_function(h, a, step)

\* ------------------------------------------------------------ constructors
\* MySQLSocketConnection.__init__: the connect_function it stores
SocketConnectFunction(connect_function_arg) ==
    IF connect_function_arg # "None"
    THEN connect_function_arg
    ELSE "default_get_mysql_connection"

\* MySQLTCPConnection.__init__: the connect_function it stores
TCPConnectFunction(connect_function_arg) ==
    "tcp_get_mysql_connection"

Configurations ==
    [transport : {"socket"}, user : {"u"}, password : {"p"},
     endpoint : {"/tmp/mysql.sock"}, dbname : DatabaseNames,
     connect_timeout : {DefaultConnectTimeout}, charset : Charsets,
     connect_function_arg : {"None", "custom"}, argv0 : {"osc_cli.py"}]
    \cup
    [transport : {"tcp"}, user : {"u"}, password : {"p"},
     endpoint : {"db.example"}, dbname : DatabaseNames,
     connect_timeout : {DefaultConnectTimeout}, charset : Charsets,
     connect_function_arg : {"None", "custom"}, argv0 : {"osc_cli.py"}]

Init ==
    /\ cfg \in Configurations
    /\ connect_function =
          IF cfg.transport = "socket"
          THEN SocketConnectFunction(cfg.connect_function_arg)
          ELSE TCPConnectFunction(cfg.connect_function_arg)
    /\ query_header = QueryHeader(cfg.argv0)
    /\ conn = None
    /\ handles = [h \in HandleIds |-> Unallocated]
    /\ last = OpRecord("__init__", "ok", "None", <<>>, <<>>)
    /\ live = FALSE
    /\ phase = 0
    /\ paired = FALSE

\* ---------------------------------------------------------------- history
QueryClass == {"query", "query_array", "execute", "get_running_queries",
               "kill_query_by_id"}

\* live: a connect() has succeeded and neither disconnect() nor close() has
\* been called since
NextLive(op, outcome) ==
    IF op = "connect" THEN (IF outcome = "ok" THEN TRUE ELSE live)
    ELSE IF op \in {"disconnect", "close"} THEN FALSE
    ELSE live

\* phase: 1 right after a successful connect(); 2 after a disconnect() that
\* follows it immediately, and through the query-class calls made then;
\* 3 after the next successful connect(), and through the query-class calls
\* made then; 0 otherwise
NextPhase(op, outcome) ==
    IF op = "connect"
    THEN (IF outcome # "ok" THEN 0 ELSE IF phase = 2 THEN 3 ELSE 1)
    ELSE IF op = "disconnect"
    THEN (IF phase = 1 /\ outcome = "ok" THEN 2 ELSE 0)
    ELSE IF op \in QueryClass
    THEN (IF phase \in {2, 3} THEN phase ELSE 0)
    ELSE IF op \in DefaultFactories
    THEN phase
    ELSE 0

\* paired: the call is a query_array that succeeded right after a query that
\* succeeded with the same statement and arguments
NextPaired(rec) ==
    /\ rec.op = "query_array"
    /\ rec.outcome = "ok"
    /\ last.op = "query"
    /\ last.outcome = "ok"
    /\ last.sql = rec.sql
    /\ last.args = rec.args

\* a method call ends: what it leaves behind
Return(rec, newConn, newHandles) ==
    /\ last' = rec
    /\ conn' = newConn
    /\ handles' = newHandles
    /\ live' = NextLive(rec.op, rec.outcome)
    /\ phase' = NextPhase(rec.op, rec.outcome)
    /\ paired' = NextPaired(rec)
    /\ UNCHANGED <<cfg, connect_function>>

\* the driver's answer to a call on handle h, d being the server's answer
Answer(h, d) ==
    IF handles[h].state = "closed" THEN ClosedHandleError ELSE d

Raised(answer) ==
    IF answer \in DriverErrors \cup {ClosedHandleError} THEN answer ELSE "ok"

\* ------------------------------------------------------------- operations
\* the arguments connect() passes to self.connect_function
ConnectArgs ==
    [user_name |-> cfg.user, user_pass |-> cfg.password, endpoint |-> cfg.endpoint,
     dbname |-> cfg.dbname, connect_timeout |-> cfg.connect_timeout,
     charset |-> cfg.charset]

\* connect() as it would be if it caught the factory's failure, dropped the
\* handle reference and tried the factory once more
connect_retries ==
    \E step \in FactorySteps, collected \in BOOLEAN :
        LET h == FreshHandle
            r == CallConnectFunction(connect_function, h, ConnectArgs, step)
            rec == [OpRecord("connect", r.raised, "None", r.calls, <<>>)
                       EXCEPT !.factory = connect_function, !.fargs = ConnectArgs,
                              !.fstep = step,
                              !.fcount = IF r.raised = "ok" THEN 1 ELSE 2,
                              !.timeout = r.timeout]
        IN  /\ h # None
            /\ query_header' = query_header
            /\ IF r.raised = "ok"
               THEN Return(rec, h,
                        [g \in HandleIds |->
                            IF g = h THEN [r.rec EXCEPT !.returned = TRUE]
                            ELSE IF g = conn /\ collected /\ handles[g].state = "open"
                            THEN [handles[g] EXCEPT !.state = "closed"]
                            ELSE handles[g]])
               ELSE Return(rec, None, handles)

\* MySQLSocketConnection.connect / MySQLTCPConnection.connect:
\*   self.conn = self.connect_function(...)
\* The handle self.conn named before is not closed here; once nothing names
\* it the runtime may finalize (close) it or not: collected.
connect ==
    \E step \in FactorySteps, collected \in BOOLEAN :
        LET h == FreshHandle
            r == CallConnectFunction(connect_function, h, ConnectArgs, step)
            rec == [OpRecord("connect", r.raised, "None", r.calls, <<>>)
                       EXCEPT !.factory = connect_function, !.fargs = ConnectArgs,
                              !.fstep = step, !.fcount = 1,
                              !.timeout = r.timeout]
        IN  /\ h # None
            /\ query_header' = query_header
            /\ IF r.raised = "ok"
               THEN Return(rec, h,
                        [g \in HandleIds |->
                            IF g = h THEN [r.rec EXCEPT !.returned = TRUE]
                            ELSE IF g = conn /\ collected /\ handles[g].state = "open"
                            THEN [handles[g] EXCEPT !.state = "closed"]
                            ELSE handles[g]])
               ELSE Return(rec, conn, handles)

\* disconnect() as it would be without "self.conn = None"
disconnect_keeps_handle ==
    /\ query_header' = query_header
    /\ IF conn # None
       THEN LET c == HandleCall(conn, "close", "none", <<>>, <<>>)
                a == Answer(conn, "ok")
            IN  IF Raised(a) = "ok"
                THEN Return(OpRecord("disconnect", "ok", "None", <<c>>, <<>>), conn,
                            [handles EXCEPT ![conn].state = "closed"])
                ELSE Return(OpRecord("disconnect", Raised(a), "None", <<c>>, <<>>),
                            conn, handles)
       ELSE Return(OpRecord("disconnect", "ok", "None", <<>>, <<>>), conn, handles)

\* MySQLBaseConnection.disconnect
disconnect ==
    /\ query_header' = query_header
    /\ IF conn # None
       THEN LET c == HandleCall(conn, "close", "none", <<>>, <<>>)
                a == Answer(conn, "ok")
            IN  IF Raised(a) = "ok"
                THEN Return(OpRecord("disconnect", "ok", "None", <<c>>, <<>>), None,
                            [handles EXCEPT ![conn].state = "closed"])
                ELSE Return(OpRecord("disconnect", Raised(a), "None", <<c>>, <<>>),
                            conn, handles)
       ELSE Return(OpRecord("disconnect", "ok", "None", <<>>, <<>>), conn, handles)

\* close() as it would be behind disconnect()'s guard "if self.conn:"
close_guarded ==
    /\ query_header' = query_header
    /\ IF conn = None
       THEN Return(OpRecord("close", "ok", "None", <<>>, <<>>), conn, handles)
       ELSE LET c == HandleCall(conn, "close", "none", <<>>, <<>>)
                a == Answer(conn, "ok")
            IN  IF Raised(a) = "ok"
                THEN Return(OpRecord("close", "ok", "None", <<c>>, <<>>), conn,
                            [handles EXCEPT ![conn].state = "closed"])
                ELSE Return(OpRecord("close", Raised(a), "None", <<c>>, <<>>),
                            conn, handles)

\* close() as it would be if it cleared self.conn the way disconnect() does
close_clears_handle ==
    /\ query_header' = query_header
    /\ IF conn = None
       THEN Return(OpRecord("close", "AttributeError", "None", <<>>, <<>>),
                   conn, handles)
       ELSE LET c == HandleCall(conn, "close", "none", <<>>, <<>>)
                a == Answer(conn, "ok")
            IN  IF Raised(a) = "ok"
                THEN Return(OpRecord("close", "ok", "None", <<c>>, <<>>), None,
                            [handles EXCEPT ![conn].state = "closed"])
                ELSE Return(OpRecord("close", Raised(a), "None", <<c>>, <<>>),
                            conn, handles)

\* MySQLBaseConnection.close
close ==
    /\ query_header' = query_header
    /\ IF conn = None
       THEN Return(OpRecord("close", "AttributeError", "None", <<>>, <<>>),
                   conn, handles)
       ELSE LET c == HandleCall(conn, "close", "none", <<>>, <<>>)
                a == Answer(conn, "ok")
            IN  IF Raised(a) = "ok"
                THEN Return(OpRecord("close", "ok", "None", <<c>>, <<>>), conn,
                            [handles EXCEPT ![conn].state = "closed"])
                ELSE Return(OpRecord("close", Raised(a), "None", <<c>>, <<>>),
                            conn, handles)

\* MySQLBaseConnection.use: self.conn.query(the USE statement)
use ==
    \E database_name \in DatabaseNames, d \in {"ok"} \cup DriverErrors :
        /\ query_header' = query_header
        /\ IF conn = None
           THEN Return(OpRecord("use", "AttributeError", "None", <<>>, <<>>),
                       conn, handles)
           ELSE LET text == UseStatement(database_name)
                    c == HandleCall(conn, "query", "none", text, NoArgs)
                    a == Answer(conn, d)
                    rec == [OpRecord("use", Raised(a), "None", <<c>>, <<>>)
                               EXCEPT !.drv = a]
                IN  Return(rec, conn,
                           IF Raised(a) = "ok"
                           THEN [handles EXCEPT ![conn].db = database_name]
                           ELSE handles)

\* set_no_binlog() as it would be with a server-wide statement (SET GLOBAL)
\* in place of the session-scoped one
set_no_binlog_global ==
    \E d \in {"ok"} \cup DriverErrors :
        /\ query_header' = query_header
        /\ IF conn = None
           THEN Return(OpRecord("set_no_binlog", "AttributeError", "None", <<>>, <<>>),
                       conn, handles)
           ELSE LET c == HandleCall(conn, "query", "none", NoBinlogStatement, NoArgs)
                    a == Answer(conn, d)
                    rec == [OpRecord("set_no_binlog", Raised(a), "None", <<c>>, <<>>)
                               EXCEPT !.drv = a]
                IN  Return(rec, conn,
                           IF Raised(a) = "ok"
                           THEN [g \in HandleIds |->
                                    IF handles[g].state = "open"
                                    THEN [handles[g] EXCEPT !.log_bin = FALSE]
                                    ELSE handles[g]]
                           ELSE handles)

\* MySQLBaseConnection.set_no_binlog: self.conn.query("SET SESSION SQL_LOG_BIN=0;")
set_no_binlog ==
    \E d \in {"ok"} \cup DriverErrors :
        /\ query_header' = query_header
        /\ IF conn = None
           THEN Return(OpRecord("set_no_binlog", "AttributeError", "None", <<>>, <<>>),
                       conn, handles)
           ELSE LET c == HandleCall(conn, "query", "none", NoBinlogStatement, NoArgs)
                    a == Answer(conn, d)
                    rec == [OpRecord("set_no_binlog", Raised(a), "None", <<c>>, <<>>)
                               EXCEPT !.drv = a]
                IN  Return(rec, conn,
                           IF Raised(a) = "ok"
                           THEN [handles EXCEPT ![conn].log_bin = FALSE]
                           ELSE handles)

\* MySQLBaseConnection.affected_rows: return self.conn.affected_rows
\* The attribute is read, not called: the handle's method is what comes back.
affected_rows ==
    /\ query_header' = query_header
    /\ IF conn = None
       THEN Return(OpRecord("affected_rows", "AttributeError", "None", <<>>, <<>>),
                   conn, handles)
       ELSE Return(OpRecord("affected_rows", "ok", "bound method", <<>>, <<>>),
                   conn, handles)

\* MySQLBaseConnection.query and query_array, which differ in the cursor class:
\*   cursor = self.conn.cursor(cursorclass)
\*   cursor.execute("%s %s" % (self.query_header, sql), args)
\*   return cursor.fetchall()
\* A warning is not an exception here: the statement completes.
RunQuery(op, cursorclass, sql, args, d) ==
    IF conn = None
    THEN [OpRecord(op, "AttributeError", "None", <<>>, <<>>)
             EXCEPT !.sql = sql, !.args = args]
    ELSE LET c == HandleCall(conn, "cursor.execute", cursorclass,
                             WithHeader(query_header, sql), args)
             a == Answer(conn, d)
         IN  [OpRecord(op, Raised(a),
                       IF Raised(a) = "ok" THEN cursorclass ELSE "None",
                       <<c>>, <<>>)
                 EXCEPT !.sql = sql, !.args = args, !.drv = a,
                        !.rows = IF Raised(a) = "ok"
                                 THEN FetchAll(cursorclass, ResultSet(sql, args))
                                 ELSE <<>>]

\* execute() as it would be if the handler logged the warning and raised it again
RunExecute_reraise(op, sql, args, d) ==
    IF conn = None
    THEN [OpRecord(op, "AttributeError", "None", <<>>, <<>>)
             EXCEPT !.sql = sql, !.args = args]
    ELSE LET c == HandleCall(conn, "cursor.execute", "Cursor",
                             WithHeader(query_header, sql), args)
             a == Answer(conn, d)
             entry == [level |-> "WARNING", warning |-> a, sql |-> sql, args |-> args]
         IN  [OpRecord(op, IF a \in DriverWarnings THEN a ELSE Raised(a),
                       IF a = "ok" THEN "rowcount" ELSE "None",
                       <<c>>,
                       IF a \in DriverWarnings THEN <<entry>> ELSE <<>>)
                 EXCEPT !.sql = sql, !.args = args, !.drv = a]

\* execute() as it would be with "except Exception" in place of "except Warning"
RunExecute_except_all(op, sql, args, d) ==
    IF conn = None
    THEN [OpRecord(op, "AttributeError", "None", <<>>, <<>>)
             EXCEPT !.sql = sql, !.args = args]
    ELSE LET c == HandleCall(conn, "cursor.execute", "Cursor",
                             WithHeader(query_header, sql), args)
             a == Answer(conn, d)
             entry == [level |-> "WARNING", warning |-> a, sql |-> sql, args |-> args]
         IN  [OpRecord(op, "ok", "rowcount", <<c>>,
                       IF a # "ok" THEN <<entry>> ELSE <<>>)
                 EXCEPT !.sql = sql, !.args = args, !.drv = a]

\* MySQLBaseConnection.execute:
\*   try: cursor = self.conn.cursor(); cursor.execute(header and sql, args)
\*   except Warning as db_warning: log.warning(...)
\*   return cursor.rowcount
RunExecute(op, sql, args, d) ==
    IF conn = None
    THEN [OpRecord(op, "AttributeError", "None", <<>>, <<>>)
             EXCEPT !.sql = sql, !.args = args]
    ELSE LET c == HandleCall(conn, "cursor.execute", "Cursor",
                             WithHeader(query_header, sql), args)
             a == Answer(conn, d)
             entry == [level |-> "WARNING", warning |-> a, sql |-> sql, args |-> args]
         IN  [OpRecord(op, Raised(a),
                       IF Raised(a) = "ok" THEN "rowcount" ELSE "None",
                       <<c>>,
                       IF a \in DriverWarnings THEN <<entry>> ELSE <<>>)
                 EXCEPT !.sql = sql, !.args = args, !.drv = a]

query ==
    \E st \in Statements, d \in DriverOutcomes :
        /\ query_header' = query_header
        /\ Return(RunQuery("query", "DictCursor", st.sql, st.args, d), conn, handles)

\* query_array() as it would be if it left args out of cursor.execute
query_array_noargs ==
    \E st \in Statements, d \in DriverOutcomes :
        /\ query_header' = query_header
        /\ IF conn = None
           THEN Return(RunQuery("query_array", "Cursor", st.sql, st.args, d),
                       conn, handles)
           ELSE LET r == RunQuery("query_array", "Cursor", st.sql, st.args, d)
                    c == HandleCall(conn, "cursor.execute", "Cursor",
                                    WithHeader(query_header, st.sql), NoArgs)
                IN  Return([r EXCEPT !.calls = <<c>>], conn, handles)

query_array ==
    \E st \in Statements, d \in DriverOutcomes :
        /\ query_header' = query_header
        /\ Return(RunQuery("query_array", "Cursor", st.sql, st.args, d), conn, handles)

execute ==
    \E st \in Statements, d \in DriverOutcomes :
        /\ query_header' = query_header
        /\ Return(RunExecute("execute", st.sql, st.args, d), conn, handles)

\* MySQLBaseConnection.get_running_queries: return self.query(sql.show_processlist)
get_running_queries ==
    \E d \in DriverOutcomes :
        /\ query_header' = query_header
        /\ Return(RunQuery("get_running_queries", "DictCursor", show_processlist,
                           NoArgs, d),
                  conn, handles)

\* kill_query_by_id() as it would be with the id formatted into the statement
kill_query_by_id_unbound ==
    \E id \in QueryIds, d \in DriverOutcomes :
        /\ query_header' = query_header
        /\ Return([RunExecute("kill_query_by_id", kill_proc, NoArgs, d)
                      EXCEPT !.ret = "None"],
                  conn, handles)

\* MySQLBaseConnection.kill_query_by_id: self.execute(sql.kill_proc, (id,))
\* execute's row count is dropped.
kill_query_by_id ==
    \E id \in QueryIds, d \in DriverOutcomes :
        /\ query_header' = query_header
        /\ Return([RunExecute("kill_query_by_id", kill_proc, <<id>>, d)
                      EXCEPT !.ret = "None"],
                  conn, handles)

\* ping() as it would be if it dropped the handle reference when the check fails
ping_drops_handle ==
    \E d \in {"ok", "OperationalError"} :
        /\ query_header' = query_header
        /\ IF conn = None
           THEN Return(OpRecord("ping", "AttributeError", "None", <<>>, <<>>),
                       conn, handles)
           ELSE LET c == HandleCall(conn, "ping", "none", <<>>, NoArgs)
                    a == Answer(conn, d)
                IN  Return([OpRecord("ping", Raised(a), "None", <<c>>, <<>>)
                               EXCEPT !.drv = a],
                           IF Raised(a) = "ok" THEN conn ELSE None, handles)

\* MySQLBaseConnection.ping: self.conn.ping()
ping ==
    \E d \in {"ok", "OperationalError"} :
        /\ query_header' = query_header
        /\ IF conn = None
           THEN Return(OpRecord("ping", "AttributeError", "None", <<>>, <<>>),
                       conn, handles)
           ELSE LET c == HandleCall(conn, "ping", "none", <<>>, NoArgs)
                    a == Answer(conn, d)
                IN  Return([OpRecord("ping", Raised(a), "None", <<c>>, <<>>)
                               EXCEPT !.drv = a],
                           conn, handles)

\* default_get_mysql_connection / tcp_get_mysql_connection called by a caller
\* of its own, with the idle timeout it chooses: the handle goes to that
\* caller, not to the instance, and no method of the instance is involved.
get_mysql_connection ==
    \E fn \in DefaultFactories, timeout \in Timeouts, step \in FactorySteps :
        LET h == FreshHandle
            r == IF fn = "default_get_mysql_connection"
                 THEN default_get_mysql_connection(h, ConnectArgs, timeout, step)
                 ELSE tcp_get_mysql_connection(h, ConnectArgs, timeout, step)
            rec == [OpRecord(fn, r.raised, IF r.raised = "ok" THEN "dbh" ELSE "None",
                             r.calls, <<>>)
                       EXCEPT !.factory = fn, !.fargs = ConnectArgs, !.fstep = step,
                              !.fcount = 1, !.timeout = r.timeout]
        IN  /\ h # None
            /\ query_header' = query_header
            /\ Return(rec, conn,
                      IF r.raised = "ok" THEN [handles EXCEPT ![h] = r.rec]
                      ELSE handles)

\* MySQLBaseConnection.set_query_header
set_query_header ==
    /\ query_header' = QueryHeader(cfg.argv0)
    /\ Return(OpRecord("set_query_header", "ok", "None", <<>>, <<>>), conn, handles)

Next ==
    \/ connect
    \/ disconnect
    \/ close
    \/ use
    \/ set_no_binlog
    \/ affected_rows
    \/ query
    \/ query_array
    \/ execute
    \/ get_running_queries
    \/ kill_query_by_id
    \/ ping
    \/ get_mysql_connection
    \/ set_query_header

Spec == Init /\ [][Next]_vars

\* ================================================================= claims
\* the methods the claims call the operations of the connection object
Operations == {"use", "set_no_binlog", "affected_rows", "query", "query_array",
               "execute", "get_running_queries", "kill_query_by_id", "ping",
               "close", "disconnect"}

OpenHandles == {h \in HandleIds : handles[h].state = "open" /\ handles[h].returned}

\* C1: the instance holds a handle (conn is not None) if and only if a
\* connect() has succeeded and neither disconnect() nor close() has been
\* called since that connect().
C1_HandleIffLive ==
    (conn # None) <=> live

\* C2: no operation issues a call on a handle that an earlier close() or
\* disconnect() of the instance already closed.
C2_NoUseAfterClose ==
    \A i \in 1..Len(last.calls) : ~last.calls[i].closed

\* C3: at most one handle obtained by the instance's connect() calls is open,
\* also after connect() on an instance that is already connected.
C3_AtMostOneOpenHandle ==
    Cardinality(OpenHandles) <= 1

\* C4: connect() followed immediately by disconnect() leaves the instance
\* without a handle, every query-class call made then fails and sends
\* nothing, the next connect() succeeds when its factory returns a handle,
\* and on that handle the query-class calls succeed again.
C4_AfterDisconnect ==
    phase = 2 =>
        /\ conn = None
        /\ last.op \in QueryClass =>
              /\ last.outcome = "AttributeError"
              /\ last.calls = <<>>

C4_AfterReconnect ==
    phase = 3 =>
        /\ conn # None
        /\ handles[conn].state = "open"
        /\ (last.op \in QueryClass /\ last.drv \notin DriverErrors) =>
              /\ last.outcome = "ok"
              /\ Len(last.calls) = 1
              /\ last.calls[1].h = conn
              /\ ~last.calls[1].closed

C4_SecondConnectSucceeds ==
    (phase = 2 /\ last'.op = "connect" /\ last'.fstep = "ok") =>
        /\ last'.outcome = "ok"
        /\ phase' = 3
        /\ conn' # None

\* C4, all three parts: the state after connect(); disconnect(), the second
\* connect(), and the state after it.
C4_ConnectDisconnectConnect ==
    /\ [](C4_AfterDisconnect /\ C4_AfterReconnect)
    /\ [][C4_SecondConnectSucceeds]_vars

\* C4 witness: after connect(), disconnect() and a second connect(), a
\* query-class call has succeeded on the new handle.
C4_Witness ==
    /\ phase = 3
    /\ last.op \in QueryClass
    /\ last.outcome = "ok"
    /\ \E h \in HandleIds : h # conn /\ handles[h].state = "closed"

\* C5 as stated: every operation, disconnect() included, called while the
\* instance has no handle fails with the illegal-state error (AttributeError
\* on None, in this code) and leaves the instance state unchanged.
C5_Original ==
    [][(conn = None /\ last'.op \in Operations) =>
          /\ last'.outcome = "AttributeError"
          /\ conn' = conn
          /\ handles' = handles]_vars

\* C5 amended: every operation other than disconnect() called while the
\* instance has no handle fails with AttributeError, issues no call and
\* leaves the state unchanged; disconnect() returns normally, issues no call
\* and leaves the state unchanged.
C5_Amended ==
    [][(conn = None /\ last'.op \in Operations) =>
          /\ last'.outcome = IF last'.op = "disconnect" THEN "ok" ELSE "AttributeError"
          /\ last'.calls = <<>>
          /\ last'.logs = <<>>
          /\ conn' = conn
          /\ handles' = handles]_vars

\* C5 witness: an operation has failed on an instance that was connected
\* and then disconnected.
C5_Witness ==
    /\ conn = None
    /\ last.op \in Operations \ {"disconnect"}
    /\ last.outcome = "AttributeError"
    /\ \E h \in HandleIds : handles[h].state = "closed"

\* C6: execute() on a connected instance returns normally on a driver
\* warning and logs exactly one WARNING entry with the statement text and the
\* warning message; without a warning it logs nothing.
C6_ExecuteWarning ==
    (last.op = "execute" /\ last.calls # <<>>) =>
        /\ last.drv \in DriverWarnings =>
              /\ last.outcome = "ok"
              /\ Len(last.logs) = 1
              /\ last.logs[1].level = "WARNING"
              /\ last.logs[1].sql = last.sql
              /\ last.logs[1].warning = last.drv
        /\ last.drv \notin DriverWarnings => last.logs = <<>>

\* C6 witness: execute() has returned normally after a driver warning.
C6_Witness ==
    /\ last.op = "execute"
    /\ last.drv \in DriverWarnings
    /\ last.outcome = "ok"
    /\ Len(last.logs) = 1

\* C7: a driver failure that is not a warning, raised during query,
\* query_array, execute, use, set_no_binlog or ping, reaches the caller as it
\* is, is not logged, and the statement is sent once; a log entry is written
\* only for a driver warning inside execute().
C7_ErrorsPropagate ==
    /\ (last.op \in {"query", "query_array", "execute", "use", "set_no_binlog",
                     "ping"}
           /\ last.drv \in DriverErrors) =>
          /\ last.outcome = last.drv
          /\ last.logs = <<>>
          /\ Len(last.calls) = 1
    /\ last.logs # <<>> =>
          /\ last.op \in {"execute", "kill_query_by_id"}
          /\ last.drv \in DriverWarnings

\* C7 witness: execute() has let a driver error through.
C7_Witness ==
    /\ last.op = "execute"
    /\ last.drv \in DriverErrors
    /\ last.outcome = last.drv

\* C8: disconnect() twice in succession, from any reachable state, does not
\* raise, and the second call issues no call on any handle and leaves the
\* instance state unchanged.
C8_DisconnectTwice ==
    /\ [](last.op = "disconnect" => last.outcome = "ok")
    /\ [][(last.op = "disconnect" /\ last'.op = "disconnect") =>
             /\ last'.calls = <<>>
             /\ conn' = conn
             /\ handles' = handles]_vars

\* C9: every statement that use, set_no_binlog, query, query_array, execute,
\* get_running_queries and kill_query_by_id send carries the query header as
\* its prefix.
C9_HeaderOnEveryStatement ==
    last.op \in {"use", "set_no_binlog"} \cup QueryClass =>
        \A i \in 1..Len(last.calls) :
            HasPrefix(last.calls[i].text, query_header)

\* the factory the claim expects connect() to call
ConfiguredFactory ==
    IF cfg.connect_function_arg # "None" THEN cfg.connect_function_arg
    ELSE IF cfg.transport = "socket" THEN "default_get_mysql_connection"
    ELSE "tcp_get_mysql_connection"

\* C10: for both transports connect() calls the factory given at
\* construction when one was given and the transport's default otherwise,
\* passes it the stored configuration, and stores the handle it returns.
C10_ConnectDispatch ==
    last.op = "connect" =>
        /\ last.factory = ConfiguredFactory
        /\ last.fargs = [user_name |-> cfg.user, user_pass |-> cfg.password,
                         endpoint |-> cfg.endpoint, dbname |-> cfg.dbname,
                         connect_timeout |-> cfg.connect_timeout,
                         charset |-> cfg.charset]
        /\ last.outcome = "ok" =>
              /\ conn # None
              /\ handles[conn].state = "open"

\* C11: close() and disconnect() both release the handle; disconnect() also
\* clears the instance's handle reference, while close() leaves it as it was:
\* after close() the instance still refers to the closed handle.
C11_CloseKeepsReference ==
    [][(conn # None /\ handles[conn].state = "open") =>
          /\ last'.op = "close" =>
                /\ last'.outcome = "ok"
                /\ handles'[conn].state = "closed"
                /\ conn' = conn
          /\ last'.op = "disconnect" =>
                /\ last'.outcome = "ok"
                /\ handles'[conn].state = "closed"
                /\ conn' = None]_vars

\* C11 witness: close() has returned and the instance refers to the handle
\* it closed.
C11_Witness ==
    /\ last.op = "close"
    /\ last.outcome = "ok"
    /\ conn # None
    /\ handles[conn].state = "closed"

\* C12: affected_rows() on a connected instance returns an integer, the row
\* count its handle reports for the statement executed last: the handle's
\* affected_rows() is called and its result is what comes back.
C12_AffectedRowsIsCount ==
    (last.op = "affected_rows" /\ last.outcome = "ok") =>
        /\ last.ret = "int"
        /\ Len(last.calls) = 1
        /\ last.calls[1].h = conn
        /\ last.calls[1].api = "affected_rows"

\* C13 as stated: kill_query_by_id(id) issues exactly one kill statement
\* through execute(), parameterized with the id, and returns without raising
\* when the id names no process of the server.
C13_Original ==
    (last.op = "kill_query_by_id" /\ conn # None /\ handles[conn].state = "open") =>
        /\ Len(last.calls) = 1
        /\ last.calls[1].text = WithHeader(query_header, kill_proc)
        /\ Len(last.calls[1].args) = 1
        /\ last.calls[1].args[1] \notin ServerProcessIds => last.outcome = "ok"

\* C13 amended: kill_query_by_id(id) issues exactly one kill statement
\* through execute(), parameterized with the id; it returns without raising
\* when the server answers with success or a warning (the warning is logged),
\* and an error the server reports, as for an id that names no process,
\* reaches the caller.
C13_Amended ==
    (last.op = "kill_query_by_id" /\ conn # None) =>
        /\ Len(last.calls) = 1
        /\ last.calls[1].h = conn
        /\ last.calls[1].api = "cursor.execute"
        /\ last.calls[1].text = WithHeader(query_header, kill_proc)
        /\ Len(last.calls[1].args) = 1
        /\ last.calls[1].args[1] \in QueryIds
        /\ last.calls[1].args = last.args
        /\ last.outcome =
              IF last.drv \in DriverErrors \cup {ClosedHandleError}
              THEN last.drv ELSE "ok"
        /\ Len(last.logs) = IF last.drv \in DriverWarnings THEN 1 ELSE 0

\* C13 witness: the kill statement for an id that names no process has been
\* sent and the server's error has reached the caller.
C13_Witness ==
    /\ last.op = "kill_query_by_id"
    /\ Len(last.calls) = 1
    /\ last.calls[1].args[1] \notin ServerProcessIds
    /\ last.drv \in DriverErrors
    /\ last.outcome = last.drv

\* C14: when the factory called by connect() fails, its failure reaches the
\* caller of connect() as raised, the factory has been called exactly once,
\* and the instance's handle reference is as it was before the call.
C14_FactoryFailure ==
    [][(last'.op = "connect" /\ last'.fstep # "ok") =>
          /\ last'.outcome = "OperationalError"
          /\ last'.fcount = 1
          /\ last'.factory = connect_function
          /\ conn' = conn
          /\ handles' = handles]_vars

\* C14 witness: connect() has failed on an instance that holds a handle, and
\* holds it still.
C14_Witness ==
    /\ last.op = "connect"
    /\ last.fstep # "ok"
    /\ last.outcome = "OperationalError"
    /\ conn # None

\* C15: both factories open the session, then enable autocommit, then, if
\* and only if the idle timeout is not zero, issue one statement that sets
\* the session's wait timeout to it, all on the handle they then return; with
\* a zero timeout no statement is issued on the handle.
C15_FactoryOrder ==
    (last.factory \in DefaultFactories /\ last.outcome = "ok") =>
        LET t == last.timeout
            h == last.calls[1].h
        IN  /\ Len(last.calls) = IF t # 0 THEN 3 ELSE 2
            /\ \A i \in 1..Len(last.calls) :
                  /\ last.calls[i].h = h
                  /\ last.calls[i].text # <<>> => i = 3
            /\ last.calls[1].api = "MySQLdb.Connect"
            /\ last.calls[2].api = "autocommit"
            /\ last.calls[2].args = <<TRUE>>
            /\ t # 0 =>
                  /\ last.calls[3].api = "cursor.execute"
                  /\ last.calls[3].text = WaitTimeoutStatement
                  /\ last.calls[3].args = <<t>>
            /\ handles[h].state = "open"
            /\ handles[h].autocommit
            /\ handles[h].wait_timeout = t
            /\ last.op = "connect" => conn = h

\* C15 witness: a factory called with a zero idle timeout has returned a
\* handle after opening the session and enabling autocommit, and nothing more.
C15_Witness ==
    /\ last.op \in DefaultFactories
    /\ last.outcome = "ok"
    /\ last.timeout = 0
    /\ Len(last.calls) = 2
    /\ handles[last.calls[1].h].autocommit

\* C16: set_no_binlog() sends its statement on the instance's current handle
\* only and turns replication logging off for that handle only; the setting
\* of every other handle is unchanged, and a handle obtained by a later
\* connect() has logging on.
C16_OnlyThisHandle ==
    (last'.op = "set_no_binlog" /\ conn # None) =>
        /\ Len(last'.calls) = 1
        /\ last'.calls[1].h = conn
        /\ last'.calls[1].text = NoBinlogStatement
        /\ last'.outcome = "ok" => ~handles'[conn].log_bin
        /\ \A g \in HandleIds \ {conn} : handles'[g] = handles[g]

C16_NewHandleLogs ==
    (last.op = "connect" /\ last.outcome = "ok") => handles[conn].log_bin

C16_SessionScoped ==
    /\ [][C16_OnlyThisHandle]_vars
    /\ []C16_NewHandleLogs

\* C16 witness: set_no_binlog() has turned logging off on the instance's
\* handle while another open handle has it on.
C16_Witness ==
    /\ last.op = "set_no_binlog"
    /\ last.outcome = "ok"
    /\ ~handles[conn].log_bin
    /\ \E g \in HandleIds \ {conn} :
          handles[g].state = "open" /\ handles[g].log_bin

\* the same values in the same row order: row i of the mappings holds, under
\* each column's name, the value row i of the tuples holds at its position
SameRows(mappings, tuples, columns) ==
    /\ Len(mappings) = Len(tuples)
    /\ \A i \in 1..Len(tuples) :
          /\ Len(tuples[i]) = Len(columns)
          /\ DOMAIN mappings[i] = {columns[k] : k \in 1..Len(columns)}
          /\ \A k \in 1..Len(columns) : mappings[i][columns[k]] = tuples[i][k]

\* query(sql, args) followed by query_array(sql, args), or the reverse
SameStatementTwice(first, second) ==
    /\ first.op \in {"query", "query_array"}
    /\ second.op \in {"query", "query_array"}
    /\ first.op # second.op
    /\ first.sql = second.sql
    /\ first.args = second.args
    /\ first.calls # <<>>

\* C17: query(sql, args) and query_array(sql, args) send the same statement
\* text (header and sql) with the same args on the same handle, and when both
\* succeed against the unchanged server they return the same number of rows
\* with the same values in the same order, as mappings and as tuples.
C17_QueryAndQueryArray ==
    [][SameStatementTwice(last, last') =>
          /\ Len(last.calls) = 1
          /\ Len(last'.calls) = 1
          /\ last'.calls[1].text = last.calls[1].text
          /\ last'.calls[1].text = WithHeader(query_header, last.sql)
          /\ last'.calls[1].args = last.calls[1].args
          /\ last'.calls[1].args = last.args
          /\ last'.calls[1].h = last.calls[1].h
          /\ (last.outcome = "ok" /\ last'.outcome = "ok") =>
                LET columns == ResultSet(last.sql, last.args).columns
                IN  IF last.op = "query"
                    THEN SameRows(last.rows, last'.rows, columns)
                    ELSE SameRows(last'.rows, last.rows, columns)]_vars

\* C17 witness: query_array has returned two rows right after query returned
\* them for the same statement and arguments.
C17_Witness ==
    /\ paired
    /\ last.op = "query_array"
    /\ Len(last.rows) = 2
    /\ last.rows[1] # last.rows[2]

\* C18: ping() never reconnects: whether the check succeeds or fails, the
\* instance's handle reference and every handle are as they were, no
\* connection factory is called, the only driver call is ping on the held
\* handle, and when the handle is dead (the server is gone or the handle is
\* closed) the driver's connection error reaches the caller.
C18_PingNeverReconnects ==
    [][last'.op = "ping" =>
          /\ conn' = conn
          /\ handles' = handles
          /\ last'.factory = "none"
          /\ last'.fcount = 0
          /\ conn # None =>
                /\ Len(last'.calls) = 1
                /\ last'.calls[1].api = "ping"
                /\ last'.calls[1].h = conn
                /\ last'.outcome = IF last'.drv = "ok" THEN "ok" ELSE last'.drv
                /\ last'.drv # "ok" =>
                      last'.outcome \in {"OperationalError", ClosedHandleError}
                /\ handles[conn].state = "closed" => last'.outcome # "ok"]_vars

\* C18 witness: ping() has failed with the driver's connection error on an
\* open handle whose server is gone, and the instance holds that handle still.
C18_Witness ==
    /\ last.op = "ping"
    /\ last.outcome = "OperationalError"
    /\ conn # None
    /\ handles[conn].state = "open"

====
